---------------------------- MODULE Spec2Model ----------------------------
(***************************************************************************)
(* A model of the spike-raster plotter.                                    *)
(*                                                                         *)
(*   src/spikeplot.py        the current client: a receiver thread         *)
(*                           (threadfun) publishes one count per neuron,   *)
(*                           the animation callback (animfun) turns the    *)
(*                           counts into lines scrolling to the left.      *)
(*   src/attic/spikeplot.py  the older program: the same pair for a socket *)
(*                           (client_thread, animate_client) and a serial  *)
(*                           mode that receives the index of the neuron    *)
(*                           that fired (serial_thread, animate_serial).   *)
(*                                                                         *)
(* Three specifications share the variables:                               *)
(*   Spec        the socket programs, one step per handler: a whole        *)
(*               animation callback, and the receiver loop split at its    *)
(*               blocking recv;                                            *)
(*   SpecRace    the current client at the granularity of the accesses to  *)
(*               the shared counts: one neuron per step on both sides;     *)
(*   SpecSerial  the serial mode of the older program.                     *)
(***************************************************************************)
EXTENDS Integers, Sequences, FiniteSets, TLC

(***************************************************************************)
(* Numbers of the programs.                                                *)
(***************************************************************************)
\* period = int(np.round((100000/time) / count))
TimeScale == 100000
\* linewidth of a line plotted while period == 0, and of any other line
ThickLw == 20
ThinLw == 1
\* the older client: period = int(np.round(100 / count))
AtticScale == 100
\* newspike = [-1]: no neuron has fired yet
NoSpike == -1
\* np.log is modelled in fixed point: LogE3(v) is ln(v) in units of 1/1000
LogUnit == 1000

(***************************************************************************)
(* Bounds of the model.                                                    *)
(***************************************************************************)
\* The width of the scrolling window: ax.set_xlim((0, W)), and a new line is
\* plotted at x = W.  The programs' window is 100 wide; the model explores
\* a narrower one, so that lines cross it and are pruned within MaxTicks
\* callbacks under every interleaving of the receiver with the animation.
\* The periods are computed with the programs' own numbers.
W == 5
\* the number of neurons plotted (len(neuron_ids))
N == 2
\* animation callbacks explored in Spec: enough for a line plotted after a
\* few callbacks to cross the whole window and be pruned
MaxTicks == 12
\* animation callbacks explored in SpecRace and in SpecSerial
MaxRaceTicks == 3
MaxSerialTicks == 4
\* bytes the serial port delivers in SpecSerial
MaxSerialBytes == 3
\* the largest count in SpecPeriod: past the first count, 200, that has the
\* period 0 at the default time
MaxRate == 201

Neurons == 1..N

(***************************************************************************)
(* What the byte source delivers: the successive results of recv.  A       *)
(* result is the sequence of the whole integers it holds (4 bytes each in  *)
(* the current client, 1 byte each in the older one): N of them is a frame,*)
(* fewer is a short read, none is the zero-length read of a closed peer,   *)
(* which every later recv repeats.                                         *)
(***************************************************************************)
\* a frame: count a for the first neuron, b for the others
F(a, b) == [k \in Neurons |-> IF k = 1 THEN a ELSE b]
\* the same frame cut one integer short
Short(a, b) == SubSeq(F(a, b), 1, N - 1)
Eof == <<>>

Streams ==
    { << F(50, 200), F(0, 50) >>,
      << F(200, 25), Eof >>,
      << F(25, 0), Short(1, 1) >>,
      << F(1, 50), F(50, 0), F(200, 200) >>,
      << F(2, 4), F(0, 1), Eof >>,
      << F(50, 200), F(0, 0), F(50, 2) >>,
      << Eof >>,
      << Short(50, 50), F(50, 50) >> }

\* -t/--time values: the default, and one that makes the window 2 ticks
Times == {1000, 50000}

VARIABLES
    variant,      \* "main": src/spikeplot.py, "attic": src/attic/spikeplot.py
    time,         \* args.time
    logarithmic,  \* args.logarithmic
    count,        \* spiketrain['count'] of each neuron
    lines,        \* spiketrain['lines'] of each neuron: the plotted lines
    ticks,        \* ticks[0]
    connected,    \* connected[0]
    closed,       \* the figure was closed: plt.fignum_exists is false
    pc,           \* where the receiver thread is
    stream,       \* what the byte source has yet to deliver
    pre,          \* history: what the last animation callback started from
    rd,           \* history: what the last recv of the receiver did
    \* SpecRace
    local,        \* threadfun's counts, and the neuron its loop is at
    ak,           \* the neuron the loop of animfun is at
    src,          \* history: the recv that assigned each count (0: none)
    seen,         \* history: src of each count when animfun last read it
    \* SpecSerial
    newspike,     \* newspike[0]
    ydata,        \* the ydata of the line of each row
    port,         \* the bytes the serial port has yet to deliver
    sh,           \* history: spikes received and spikes drawn, per row
    \* SpecPeriod
    calc          \* two counts, and the periods computed from them

raceVars == << local, ak, src, seen >>
serialVars == << newspike, ydata, port, sh >>

vars == << variant, time, logarithmic, count, lines, ticks, connected,
           closed, pc, stream, pre, rd, raceVars, serialVars, calc >>

(***************************************************************************)
(* np.round: round half to even, of the quotient num / den.                *)
(***************************************************************************)
RoundHalfEven(num, den) ==
    LET q == num \div den
        r == num % den
    IN  IF 2 * r < den THEN q
        ELSE IF 2 * r > den THEN q + 1
        ELSE IF q % 2 = 0 THEN q ELSE q + 1

\* np.log(v) in units of 1/LogUnit, for v in 1..256: the nearest integer to
\* 1000 * ln v.
LogTable ==
   << 0, 693, 1099, 1386, 1609, 1792, 1946, 2079, 2197, 2303, 2398, 2485,
      2565, 2639, 2708, 2773, 2833, 2890, 2944, 2996, 3045, 3091, 3135, 3178,
      3219, 3258, 3296, 3332, 3367, 3401, 3434, 3466, 3497, 3526, 3555, 3584,
      3611, 3638, 3664, 3689, 3714, 3738, 3761, 3784, 3807, 3829, 3850, 3871,
      3892, 3912, 3932, 3951, 3970, 3989, 4007, 4025, 4043, 4060, 4078, 4094,
      4111, 4127, 4143, 4159, 4174, 4190, 4205, 4220, 4234, 4248, 4263, 4277,
      4290, 4304, 4317, 4331, 4344, 4357, 4369, 4382, 4394, 4407, 4419, 4431,
      4443, 4454, 4466, 4477, 4489, 4500, 4511, 4522, 4533, 4543, 4554, 4564,
      4575, 4585, 4595, 4605, 4615, 4625, 4635, 4644, 4654, 4663, 4673, 4682,
      4691, 4700, 4710, 4718, 4727, 4736, 4745, 4754, 4762, 4771, 4779, 4787,
      4796, 4804, 4812, 4820, 4828, 4836, 4844, 4852, 4860, 4868, 4875, 4883,
      4890, 4898, 4905, 4913, 4920, 4927, 4934, 4942, 4949, 4956, 4963, 4970,
      4977, 4984, 4990, 4997, 5004, 5011, 5017, 5024, 5030, 5037, 5043, 5050,
      5056, 5063, 5069, 5075, 5081, 5088, 5094, 5100, 5106, 5112, 5118, 5124,
      5130, 5136, 5142, 5147, 5153, 5159, 5165, 5170, 5176, 5182, 5187, 5193,
      5198, 5204, 5209, 5215, 5220, 5226, 5231, 5236, 5242, 5247, 5252, 5257,
      5263, 5268, 5273, 5278, 5283, 5288, 5293, 5298, 5303, 5308, 5313, 5318,
      5323, 5328, 5333, 5338, 5342, 5347, 5352, 5357, 5361, 5366, 5371, 5375,
      5380, 5384, 5389, 5394, 5398, 5403, 5407, 5412, 5416, 5421, 5425, 5429,
      5434, 5438, 5442, 5447, 5451, 5455, 5460, 5464, 5468, 5472, 5476, 5481,
      5485, 5489, 5493, 5497, 5501, 5505, 5509, 5513, 5517, 5521, 5525, 5529,
      5533, 5537, 5541, 5545 >>

LogE3(v) == LogTable[v]

\* count = np.log(rawcount+1) if logarithmic else rawcount, as the fraction
\* num / den
ScaledCountInverted(rawcount, logflag) ==
    IF logflag THEN [num |-> rawcount, den |-> 1]
    ELSE [num |-> LogE3(rawcount + 1), den |-> LogUnit]

ScaledCount(rawcount, logflag) ==
    IF logflag THEN [num |-> LogE3(rawcount + 1), den |-> LogUnit]
    ELSE [num |-> rawcount, den |-> 1]

\* period = int(np.round((100000/time) / count)), count the fraction c
PeriodSwapped(t, c) == RoundHalfEven(t * c.num, TimeScale * c.den)

Period(t, c) == RoundHalfEven(TimeScale * c.den, t * c.num)

\* the older client: period = int(np.round(100 / count))
AtticPeriod(c) == RoundHalfEven(AtticScale, c)

(***************************************************************************)
(* The lines of one neuron.  A line is [x, lw]: its abscissa (both ends of *)
(* the vertical line share it) and its linewidth.                          *)
(***************************************************************************)
NewLine(lw) == [x |-> W, lw |-> lw]

\* if len(lines) > 0 and lines[0][0].get_xdata()[0] < 0: lines.pop(0)
PruneLate(ln) == IF Len(ln) > 0 /\ ln[1].x < -1 THEN Tail(ln) ELSE ln

PrunePopLast(ln) ==
    IF Len(ln) > 0 /\ ln[1].x < 0 THEN SubSeq(ln, 1, Len(ln) - 1) ELSE ln

Prune(ln) == IF Len(ln) > 0 /\ ln[1].x < 0 THEN Tail(ln) ELSE ln

\* for line in lines: ln.set_xdata(xdata - 1)
ShiftAllButLast(ln) ==
    [i \in 1..Len(ln) |->
        IF i < Len(ln) THEN [ln[i] EXCEPT !.x = @ - 1] ELSE ln[i]]

ShiftFirstOnly(ln) ==
    [i \in 1..Len(ln) |->
        IF i = 1 THEN [ln[i] EXCEPT !.x = @ - 1] ELSE ln[i]]

Shift(ln) == [i \in 1..Len(ln) |-> [ln[i] EXCEPT !.x = @ - 1]]

(***************************************************************************)
(* The body of the loop of the animation callback for one neuron: from its *)
(* lines ln, its count raw, connected[0] and ticks[0], the lines it leaves,*)
(* the period it computed (-1: none), whether it plotted a line, and       *)
(* whether it raised (the older client divides by a period of 0).          *)
(***************************************************************************)
Idle(ln) == [lines |-> ln, period |-> -1, plotted |-> FALSE, raised |-> FALSE]

\* src/spikeplot.py, animfun: the lines are pruned and shifted only inside
\* the test of connected[0] and count
AnimMainNoThick(ln, raw, conn, tk, t, logflag) ==
    LET c == ScaledCount(raw, logflag) IN
    IF conn /\ c.num > 0
    THEN LET period == Period(t, c)
             plot   == period # 0 /\ tk % period = 0
             l1     == IF plot THEN Append(ln, NewLine(ThinLw)) ELSE ln
         IN  [lines |-> Shift(Prune(l1)), period |-> period,
              plotted |-> plot, raised |-> FALSE]
    ELSE Idle(ln)

\* if period == 0 or ticks[0] % period == 0: the test reads ticks[0] before
\* the callback increments it
AnimMainTickFirst(ln, raw, conn, tk, t, logflag) ==
    LET c == ScaledCount(raw, logflag) IN
    IF conn /\ c.num > 0
    THEN LET period == Period(t, c)
             lw     == IF period = 0 THEN ThickLw ELSE ThinLw
             plot   == period = 0 \/ (tk + 1) % period = 0
             l1     == IF plot THEN Append(ln, NewLine(lw)) ELSE ln
         IN  [lines |-> Shift(Prune(l1)), period |-> period,
              plotted |-> plot, raised |-> FALSE]
    ELSE Idle(ln)

AnimMain(ln, raw, conn, tk, t, logflag) ==
    LET c == ScaledCount(raw, logflag) IN
    IF conn /\ c.num > 0
    THEN LET period == Period(t, c)
             lw     == IF period = 0 THEN ThickLw ELSE ThinLw
             plot   == period = 0 \/ tk % period = 0
             l1     == IF plot THEN Append(ln, NewLine(lw)) ELSE ln
         IN  [lines |-> Shift(Prune(l1)), period |-> period,
              plotted |-> plot, raised |-> FALSE]
    ELSE Idle(ln)

\* src/attic/spikeplot.py, animate_client: ticks[0] % period raises
\* ZeroDivisionError when the period is 0, before anything is changed
AnimAtticNoConn(ln, raw, conn, tk) ==
    IF raw > 0
    THEN LET period == AtticPeriod(raw) IN
         IF period = 0
         THEN [lines |-> ln, period |-> 0, plotted |-> FALSE, raised |-> TRUE]
         ELSE LET plot == tk % period = 0
                  l1   == IF plot THEN Append(ln, NewLine(ThinLw)) ELSE ln
              IN  [lines |-> Shift(Prune(l1)), period |-> period,
                   plotted |-> plot, raised |-> FALSE]
    ELSE Idle(ln)

AnimAttic(ln, raw, conn, tk) ==
    IF conn /\ raw > 0
    THEN LET period == AtticPeriod(raw) IN
         IF period = 0
         THEN [lines |-> ln, period |-> 0, plotted |-> FALSE, raised |-> TRUE]
         ELSE LET plot == tk % period = 0
                  l1   == IF plot THEN Append(ln, NewLine(ThinLw)) ELSE ln
              IN  [lines |-> Shift(Prune(l1)), period |-> period,
                   plotted |-> plot, raised |-> FALSE]
    ELSE Idle(ln)

AnimChannel(k) ==
    IF variant = "main"
    THEN AnimMain(lines[k], count[k], connected, ticks, time, logarithmic)
    ELSE AnimAttic(lines[k], count[k], connected, ticks)

(***************************************************************************)
(* Init: the state main() leaves when it starts the thread and the         *)
(* animation: every count 0, no line, ticks 0, connected.                  *)
(***************************************************************************)
NoTick ==
    [ticks |-> -1, lines |-> [k \in Neurons |-> <<>>],
     count |-> [k \in Neurons |-> 0], connected |-> TRUE,
     period |-> [k \in Neurons |-> -1],
     plotted |-> [k \in Neurons |-> FALSE],
     reached |-> [k \in Neurons |-> FALSE]]

NoRead == [done |-> FALSE, got |-> <<>>, count |-> [k \in Neurons |-> 0],
           late |-> 0, discAt |-> -1]

NoCalc == [done |-> FALSE, c1 |-> 0, c2 |-> 0, p1 |-> -1, p2 |-> -1,
           a1 |-> -1, a2 |-> -1]

NoLocal == [counts |-> <<>>, k |-> 0, id |-> 0]

RaceIdle ==
    /\ local = NoLocal
    /\ ak = 1
    /\ src = [k \in Neurons |-> 0]
    /\ seen = [k \in Neurons |-> 0]

SerialIdle ==
    /\ newspike = NoSpike
    /\ ydata = [k \in Neurons |-> <<>>]
    /\ port = <<>>
    /\ sh = [named |-> [k \in Neurons |-> 0],
             drawn |-> [k \in Neurons |-> 0], fresh |-> FALSE]

Init ==
    /\ variant \in {"main", "attic"}
    /\ time \in (IF variant = "main" THEN Times ELSE {1000})
    /\ logarithmic \in (IF variant = "main" THEN BOOLEAN ELSE {FALSE})
    /\ count = [k \in Neurons |-> 0]
    /\ lines = [k \in Neurons |-> <<>>]
    /\ ticks = 0
    /\ connected = TRUE
    /\ closed = FALSE
    /\ pc = "check"
    /\ stream \in Streams
    /\ pre = NoTick
    /\ rd = NoRead
    /\ RaceIdle
    /\ calc = NoCalc
    /\ SerialIdle

(***************************************************************************)
(* The user closes the figure.                                             *)
(***************************************************************************)
Close ==
    /\ ~closed
    /\ closed' = TRUE
    /\ UNCHANGED << calc, variant, time, logarithmic, count, lines, ticks,
                    connected, pc, stream, pre, rd, raceVars, serialVars >>

(***************************************************************************)
(* The receiver thread.  pc: "check" at the top of the loop, "recv" in the *)
(* blocking read, "exit" after the break, "dead" after an exception that   *)
(* nothing catches.                                                        *)
(***************************************************************************)
\* if not plt.fignum_exists(fig.number): break
CheckNever == "recv"

CheckClosed == IF closed THEN "exit" ELSE "recv"

ThreadCheck ==
    /\ pc = "check"
    /\ pc' = CheckClosed
    /\ UNCHANGED << calc, variant, time, logarithmic, count, lines, ticks,
                    connected, closed, stream, pre, rd, raceVars, serialVars >>

\* What one recv and the statements after it do to the shared state, from
\* the result buf of the recv: the counts, connected[0], the thread, and
\* whether a count or connected[0] was assigned.
\* src/spikeplot.py: unpack('I'*n_neurons, buf) raises struct.error unless
\* buf holds exactly n_neurons integers.
RecvMain(buf) ==
    IF Len(buf) # N
    THEN [count |-> count, connected |-> connected, pc |-> "dead",
          wrote |-> FALSE]
    ELSE IF Len(buf) > 0
         THEN [count |-> [k \in Neurons |-> buf[k]], connected |-> connected,
               pc |-> "check", wrote |-> TRUE]
         ELSE [count |-> count, connected |-> FALSE, pc |-> "check",
               wrote |-> TRUE]

\* src/attic/spikeplot.py: the counts are the bytes received; counts[index]
\* raises IndexError at the first neuron past the end of a short read.
RecvAtticAnyCount(buf) ==
    IF Len(buf) > 0 /\ \E k \in 1..Len(buf) : buf[k] > 0
    THEN [count |-> [k \in Neurons |-> IF k <= Len(buf) THEN buf[k]
                                        ELSE count[k]],
          connected |-> TRUE,
          pc |-> IF Len(buf) < N THEN "dead" ELSE "check", wrote |-> TRUE]
    ELSE [count |-> count, connected |-> FALSE, pc |-> "check",
          wrote |-> TRUE]

RecvAttic(buf) ==
    IF Len(buf) > 0
    THEN [count |-> [k \in Neurons |-> IF k <= Len(buf) THEN buf[k]
                                        ELSE count[k]],
          connected |-> connected,
          pc |-> IF Len(buf) < N THEN "dead" ELSE "check", wrote |-> TRUE]
    ELSE [count |-> count, connected |-> FALSE, pc |-> "check",
          wrote |-> TRUE]

Recv(buf) == IF variant = "main" THEN RecvMain(buf) ELSE RecvAttic(buf)

ThreadRecv ==
    /\ pc = "recv"
    /\ stream # <<>>
    /\ LET buf == Head(stream)
           r   == Recv(buf)
       IN  /\ count' = r.count
           /\ connected' = r.connected
           /\ pc' = r.pc
           /\ stream' = IF buf = <<>> THEN stream ELSE Tail(stream)
           /\ rd' = [done |-> TRUE, got |-> buf, count |-> count,
                     late |-> IF closed /\ r.wrote
                              THEN rd.late + 1 ELSE rd.late,
                     discAt |-> IF connected /\ ~r.connected
                                THEN ticks ELSE rd.discAt]
    /\ UNCHANGED << calc, variant, time, logarithmic, lines, ticks, closed, pre,
                    raceVars, serialVars >>

\* ticks[0] += 1, after the loop over the neurons; not reached when the
\* loop raised
NextTicksPerNeuron(tk, raised) == IF raised THEN tk ELSE tk + N

NextTicks(tk, raised) == IF raised THEN tk ELSE tk + 1

(***************************************************************************)
(* One animation callback: every neuron in turn, then ticks[0] += 1.  An   *)
(* exception (the older client) leaves the loop: the neurons after it are  *)
(* not processed and ticks[0] keeps its value.                             *)
(***************************************************************************)
AnimFun ==
    /\ ~closed
    /\ ticks < MaxTicks
    /\ LET res == [k \in Neurons |-> AnimChannel(k)]
           stopped(k) == \E j \in 1..k : res[j].raised
           raised == \E j \in Neurons : res[j].raised
       IN  /\ lines' = [k \in Neurons |->
                          IF stopped(k) THEN lines[k] ELSE res[k].lines]
           /\ ticks' = NextTicks(ticks, raised)
           /\ pre' = [ticks |-> ticks, lines |-> lines, count |-> count,
                      connected |-> connected,
                      period |-> [k \in Neurons |->
                          IF \E j \in 1..(k-1) : res[j].raised THEN -1
                          ELSE res[k].period],
                      plotted |-> [k \in Neurons |->
                          ~stopped(k) /\ res[k].plotted],
                      reached |-> [k \in Neurons |-> ~stopped(k)]]
    /\ UNCHANGED << calc, variant, time, logarithmic, count, connected, closed,
                    pc, stream, rd, raceVars, serialVars >>

Next == Close \/ ThreadCheck \/ ThreadRecv \/ AnimFun

Spec == Init /\ [][Next]_vars

(***************************************************************************)
(* SpecRace: src/spikeplot.py with the two loops over the neurons taken    *)
(* one neuron at a time.  threadfun assigns s['count'] = counts[k] neuron  *)
(* by neuron and animfun reads spiketrain['count'] neuron by neuron; no    *)
(* lock orders them, and the interpreter may switch threads between any    *)
(* two of these statements.                                                *)
(***************************************************************************)
InitRace ==
    /\ variant = "main"
    /\ time = 1000
    /\ logarithmic = FALSE
    /\ count = [k \in Neurons |-> 0]
    /\ lines = [k \in Neurons |-> <<>>]
    /\ ticks = 0
    /\ connected = TRUE
    /\ closed = FALSE
    /\ pc = "check"
    /\ stream \in Streams
    /\ pre = NoTick
    /\ rd = NoRead
    /\ RaceIdle
    /\ calc = NoCalc
    /\ SerialIdle

\* counts = unpack('I'*n_neurons, client.recv(4*n_neurons)), then the test
\* of len(counts)
RaceRecv ==
    /\ pc = "recv"
    /\ stream # <<>>
    /\ LET buf == Head(stream) IN
       /\ stream' = IF buf = <<>> THEN stream ELSE Tail(stream)
       /\ IF Len(buf) # N
          THEN pc' = "dead" /\ UNCHANGED << local, connected >>
          ELSE IF Len(buf) > 0
               THEN /\ pc' = "publish"
                    /\ local' = [counts |-> buf, k |-> 1, id |-> local.id + 1]
                    /\ UNCHANGED connected
               ELSE /\ pc' = "check"
                    /\ connected' = FALSE
                    /\ UNCHANGED local
    /\ UNCHANGED << calc, variant, time, logarithmic, count, lines, ticks, closed,
                    pre, rd, ak, src, seen, serialVars >>

\* s['count'] = counts[k], for one neuron
RacePublish ==
    /\ pc = "publish"
    /\ count' = [count EXCEPT ![local.k] = local.counts[local.k]]
    /\ src' = [src EXCEPT ![local.k] = local.id]
    /\ local' = [local EXCEPT !.k = @ + 1]
    /\ pc' = IF local.k = N THEN "check" ELSE "publish"
    /\ UNCHANGED << calc, variant, time, logarithmic, lines, ticks, connected,
                    closed, stream, pre, rd, ak, seen, serialVars >>

\* the body of the loop of animfun for neuron ak; after the last neuron,
\* ticks[0] += 1
RaceAnim ==
    /\ ~closed
    /\ ticks < MaxRaceTicks
    /\ LET r == AnimChannel(ak) IN
       /\ lines' = [lines EXCEPT ![ak] = r.lines]
       /\ seen' = [seen EXCEPT ![ak] = src[ak]]
       /\ ak' = IF ak = N THEN 1 ELSE ak + 1
       /\ ticks' = IF ak = N THEN ticks + 1 ELSE ticks
    /\ UNCHANGED << calc, variant, time, logarithmic, count, connected, closed, pc,
                    stream, pre, rd, local, src, serialVars >>

NextRace == Close \/ ThreadCheck \/ RaceRecv \/ RacePublish \/ RaceAnim

SpecRace == InitRace /\ [][NextRace]_vars

(***************************************************************************)
(* SpecSerial: the serial mode of src/attic/spikeplot.py.  Each byte read  *)
(* from the port is the index of the neuron that fired; each row of the    *)
(* plot is one line whose ydata is 1 where a spike is drawn.               *)
(***************************************************************************)
\* the bytes the port can deliver: the indices of the rows (from 0), and
\* one index that is no row
SerialBytes == 0..N

SerialPorts ==
    UNION { [1..n -> SerialBytes] : n \in 1..MaxSerialBytes }

InitSerial ==
    /\ variant = "serial"
    /\ time = 1000
    /\ logarithmic = FALSE
    /\ count = [k \in Neurons |-> 0]
    /\ lines = [k \in Neurons |-> <<>>]
    /\ ticks = 0
    /\ connected = TRUE
    /\ closed = FALSE
    /\ pc = "check"
    /\ stream = <<>>
    /\ pre = NoTick
    /\ rd = NoRead
    /\ RaceIdle
    /\ calc = NoCalc
    /\ newspike = NoSpike
    /\ ydata = [k \in Neurons |-> [i \in 1..W |-> 0]]
    /\ port \in SerialPorts
    /\ sh = [named |-> [k \in Neurons |-> 0],
             drawn |-> [k \in Neurons |-> 0], fresh |-> FALSE]

\* newspike[0] = ord(port.read())
SerialRead ==
    /\ pc = "recv"
    /\ port # <<>>
    /\ newspike' = Head(port)
    /\ port' = Tail(port)
    /\ pc' = "check"
    /\ sh' = [sh EXCEPT
                !.named = [k \in Neurons |->
                             IF k - 1 = Head(port) THEN @[k] + 1 ELSE @[k]],
                !.fresh = FALSE]
    /\ UNCHANGED << calc, variant, time, logarithmic, count, lines, ticks,
                    connected, closed, stream, pre, rd, raceVars, ydata >>

\* ydata = np.roll(ydata, -1); ydata[-1] = 1 if row == newspike[0] else 0;
\* ydata = np.roll(ydata, -1); ydata[-1] = 0
RollSet(y, v) == Append(Tail(y), v)

RowSpike(row, spike) == IF row = spike THEN 1 ELSE 0

AnimateRow(y, row, spike) == RollSet(RollSet(y, RowSpike(row, spike)), 0)

\* animate_serial: every row in turn (row k of the model is row k - 1 of
\* the program)
AnimateSerial ==
    /\ ~closed
    /\ ticks < MaxSerialTicks
    /\ ydata' = [k \in Neurons |-> AnimateRow(ydata[k], k - 1, newspike)]
    /\ ticks' = ticks + 1
    /\ sh' = [sh EXCEPT
                !.drawn = [k \in Neurons |->
                             @[k] + RowSpike(k - 1, newspike)],
                !.fresh = TRUE]
    /\ UNCHANGED << calc, variant, time, logarithmic, count, lines, connected,
                    closed, pc, stream, pre, rd, raceVars, newspike, port >>

NextSerial == Close \/ ThreadCheck \/ SerialRead \/ AnimateSerial

SpecSerial == InitSerial /\ [][NextSerial]_vars

(***************************************************************************)
(* SpecPeriod: the computation of the period alone, for two counts c1 < c2 *)
(* under one time and one logarithmic flag: by src/spikeplot.py (p1, p2)   *)
(* and by src/attic/spikeplot.py (a1, a2).                                 *)
(***************************************************************************)
InitPeriod ==
    /\ variant = "main"
    /\ time \in Times
    /\ logarithmic \in BOOLEAN
    /\ count = [k \in Neurons |-> 0]
    /\ lines = [k \in Neurons |-> <<>>]
    /\ ticks = 0
    /\ connected = TRUE
    /\ closed = FALSE
    /\ pc = "check"
    /\ stream = <<>>
    /\ pre = NoTick
    /\ rd = NoRead
    /\ RaceIdle
    /\ SerialIdle
    /\ \E c1 \in 1..MaxRate : \E c2 \in (c1 + 1)..MaxRate :
          calc = [NoCalc EXCEPT !.c1 = c1, !.c2 = c2]

ComputePeriod ==
    /\ ~calc.done
    /\ calc' = [calc EXCEPT
                  !.done = TRUE,
                  !.p1 = Period(time, ScaledCount(calc.c1, logarithmic)),
                  !.p2 = Period(time, ScaledCount(calc.c2, logarithmic)),
                  !.a1 = AtticPeriod(calc.c1),
                  !.a2 = AtticPeriod(calc.c2)]
    /\ UNCHANGED << variant, time, logarithmic, count, lines, ticks,
                    connected, closed, pc, stream, pre, rd, raceVars,
                    serialVars >>

NextPeriod == ComputePeriod

SpecPeriod == InitPeriod /\ [][NextPeriod]_vars


(***************************************************************************)
(* Properties.  pre is the state the last animation callback started from, *)
(* with what it computed; rd is the last recv of the receiver.  Both stay  *)
(* as they are until the next callback, or recv, so a statement about what *)
(* a callback or a recv did is a statement about the state it leaves.      *)
(***************************************************************************)
Ticked == pre.ticks >= 0

\* the number of lines of a window at or right of the left edge
Live(ln) == Cardinality({i \in 1..Len(ln) : ln[i].x >= 0})

\* the lines of neuron k that the last callback found and left in place:
\* what it holds now without the line the callback plotted
Kept(k) ==
    IF pre.plotted[k] THEN SubSeq(lines[k], 1, Len(lines[k]) - 1)
    ELSE lines[k]

\* every line the callback found is one further left, or gone if it was
\* left of the edge; none left of the edge remains
Aged(k) ==
    LET old == pre.lines[k]
        cut == Len(old) - Len(Kept(k))
    IN  /\ cut >= 0
        /\ \A i \in 1..Len(Kept(k)) :
              Kept(k)[i] = [old[i + cut] EXCEPT !.x = @ - 1]
        /\ \A i \in 1..cut : old[i].x - 1 < 0
        /\ \A i \in 1..Len(lines[k]) : lines[k][i].x >= 0

\* the last recv returned a buffer that is not a frame
FaultyRead == rd.done /\ Len(rd.got) # N

\* C1: when the read returns zero bytes or a buffer of the wrong length, the
\* receiver sets connected to false and that read changes no count: the
\* engine is Disconnected afterwards.
C1_FaultDisconnects ==
    FaultyRead => (connected = FALSE /\ count = rd.count)

\* C2: on every callback, for every neuron, whatever its count and whatever
\* connected is, every line already in the window is moved left by exactly
\* one and the lines that fell below 0 are removed.
C2_EveryTickAges ==
    Ticked => \A k \in Neurons : Aged(k)

\* C3: after the disconnection no line is plotted, and every window keeps
\* aging and is empty within W further callbacks.
C3_DrainsAfterDisconnect ==
    /\ (Ticked /\ ~pre.connected) =>
          \A k \in Neurons : ~pre.plotted[k] /\ Aged(k)
    /\ (~connected /\ ticks >= rd.discAt + W) =>
          \A k \in Neurons : lines[k] = <<>>

\* C4: a callback that finds the count of a neuron 0, or connected false,
\* plots no line for it: its window is no longer than before the callback.
C4_NoGrowthWhenIdle ==
    Ticked =>
        \A k \in Neurons :
            (pre.count[k] = 0 \/ ~pre.connected) =>
                /\ ~pre.plotted[k]
                /\ Len(lines[k]) <= Len(pre.lines[k])
                /\ Live(lines[k]) <= Live(pre.lines[k])

C4_Witness ==
    /\ Ticked /\ ~pre.connected
    /\ \E k \in Neurons : pre.count[k] = 0 /\ pre.lines[k] # <<>>
    /\ \E k \in Neurons : pre.count[k] > 0 /\ pre.lines[k] # <<>>

\* the period of the raw count: int(np.round((100000/time) / rawcount))
RawPeriod(c) == RoundHalfEven(TimeScale, time * c)

\* C5 as stated: the period is always computed from the raw count, so it is
\* the same with the logarithmic flag on and off.
C5_PeriodFromRawCount ==
    (Ticked /\ variant = "main") =>
        \A k \in Neurons :
            pre.period[k] # -1 => pre.period[k] = RawPeriod(pre.count[k])

\* C5 as amended: the flag never changes whether a neuron is scheduled (a
\* period is computed exactly when connected and the raw count is positive);
\* with the flag off the period is that of the raw count; with the flag on
\* it is computed from log(count + 1) and is never shorter than that of the
\* raw count.
C5_LogPeriodNeverShorter ==
    (Ticked /\ variant = "main") =>
        \A k \in Neurons :
            /\ (pre.period[k] # -1) <=> (pre.connected /\ pre.count[k] > 0)
            /\ pre.period[k] # -1 =>
                  IF logarithmic
                  THEN pre.period[k] >= RawPeriod(pre.count[k])
                  ELSE pre.period[k] = RawPeriod(pre.count[k])

C5_Witness ==
    /\ Ticked /\ variant = "main" /\ logarithmic
    /\ \E k \in Neurons :
          /\ pre.period[k] # -1
          /\ pre.period[k] > RawPeriod(pre.count[k])
          /\ RawPeriod(pre.count[k]) > 0
          /\ pre.ticks % RawPeriod(pre.count[k]) = 0
          /\ ~pre.plotted[k]

\* C6 as stated: while the period of a connected neuron is 0 the callbacks
\* do not plot one line each: no callback that finds the period 0 plots a
\* line right after a line plotted the same way by the callback before it.
C6_SaturatedPlotsNotEveryTick ==
    (Ticked /\ variant = "main") =>
        \A k \in Neurons :
            (pre.period[k] = 0 /\ pre.plotted[k]) =>
                LET n == Len(lines[k]) IN
                ~(/\ n >= 2
                  /\ lines[k][n - 1].lw = ThickLw
                  /\ lines[k][n - 1].x = lines[k][n].x - 1)

\* C6 as amended: a callback that finds the period 0 plots exactly one line
\* for the neuron, a thick one, at the right edge of the window.
C6_SaturatedPlotsThick ==
    (Ticked /\ variant = "main") =>
        \A k \in Neurons :
            /\ pre.period[k] = 0 =>
                  /\ pre.plotted[k]
                  /\ Len(lines[k]) >= 1
                  /\ lines[k][Len(lines[k])] = [x |-> W - 1, lw |-> ThickLw]
                  /\ Len(lines[k]) - Len(pre.lines[k]) \in {0, 1}
            /\ \A i \in 1..Len(lines[k]) :
                  lines[k][i].lw = ThickLw => lines[k][i].x < W

C6_Witness ==
    /\ Ticked /\ variant = "main"
    /\ \E k \in Neurons :
          /\ pre.period[k] = 0
          /\ Len(lines[k]) >= 2
          /\ \A i \in 1..Len(lines[k]) : lines[k][i].lw = ThickLw

\* C7: whatever was received and however many callbacks ran, a window holds
\* at most W live lines (lines at a position of 0 or more) between callbacks.
C7_AtMostWLive ==
    \A k \in Neurons : Live(lines[k]) <= W

C7_Witness ==
    \E k \in Neurons : Live(lines[k]) = W /\ Len(lines[k]) = W + 1

\* C8 as stated: once the figure is closed the receiver assigns no count and
\* no connected flag, however the closing interleaves with its iteration.
C8_NoWriteAfterClose ==
    rd.late = 0

\* C8 as amended: the receiver exits only once the figure is closed, and
\* after the closing at most one recv assigns counts or the connected flag:
\* the one of the iteration that had passed its check before the closing.
C8_AtMostOneLateRead ==
    /\ rd.late <= 1
    /\ pc = "exit" => closed
    /\ (closed /\ pc = "recv") => rd.late = 0

C8_Witness ==
    rd.late = 1 /\ pc = "exit" /\ count # rd.count


\* C9: in the serial mode every byte naming row k draws exactly one spike in
\* row k and none in another row, however the reads and the callbacks
\* interleave: after a callback, every row has drawn as many spikes as bytes
\* have named it.
C9_OneSpikePerByte ==
    sh.fresh => \A k \in Neurons : sh.drawn[k] = sh.named[k]

\* C10: a callback never sees a torn update of the counts: the counts it
\* read for its neurons were all assigned by the same recv (or none was
\* assigned yet).
C10_NoTornTick ==
    (ticks > 0 /\ ak = 1) => \A j, k \in Neurons : seen[j] = seen[k]

\* neuron k holds a line the last callback plotted: the only line at the
\* right edge after the shift
HasNew(k) == Len(lines[k]) > 0 /\ lines[k][Len(lines[k])].x = W - 1

\* the last callback went through the scheduling of neuron k with a period
\* of at least 1
Scheduled(k) == Ticked /\ pre.connected /\ pre.period[k] >= 1

Shifted(k) ==
    /\ Ticked /\ pre.reached[k] /\ pre.period[k] # -1
    /\ variant = "main" \/ pre.period[k] # 0

\* C12: a line plotted at W-1 is at -1 after W callbacks that shift its
\* window, and is pruned by then: the callback that moves a line from 0 to
\* -1 does not leave it in the window.
C12_PrunedAfterWTicks ==
    \A k \in Neurons :
        Shifted(k) =>
            \A i \in 1..Len(pre.lines[k]) :
                pre.lines[k][i].x = 0 =>
                    \A j \in 1..Len(lines[k]) : lines[k][j].x # -1

\* C13: the period round(n / c) does not grow with the count: for counts
\* 0 < c1 < c2 the period of c1 is at least the period of c2; a period is a
\* non-negative integer; n = 100 and c = 25 give the period 4.
C13_PeriodNeverGrowsWithCount ==
    calc.done =>
        /\ calc.p1 >= calc.p2
        /\ calc.a1 >= calc.a2
        /\ {calc.p1, calc.p2, calc.a1, calc.a2} \subseteq Nat
        /\ (calc.c1 = 25 /\ time = 1000 /\ ~logarithmic) => calc.p1 = 4
        /\ calc.c1 = 25 => calc.a1 = 4

\* the counts 25 and 200 at the default time: the periods 4 and 0
C13_Witness ==
    /\ calc.done /\ time = 1000 /\ ~logarithmic
    /\ calc.c1 = 25 /\ calc.p1 = 4 /\ calc.a1 = 4
    /\ calc.c2 = 200 /\ calc.p2 = 0 /\ calc.a2 = 0

\* C14: connected[0] is one-way: it starts true, it becomes false only by
\* the receiver after a zero-length read, and once false it is never true
\* again.
C14_ConnectedOneWay ==
    /\ ~rd.done => connected
    /\ connected <=> rd.discAt = -1
    /\ ~connected => rd.done /\ rd.got = Eof
    /\ (Ticked /\ ~pre.connected) => ~connected

\* the older client, disconnected by a zero-length read after a frame, and
\* a callback run since
C14_Witness ==
    /\ ~connected /\ rd.got = Eof /\ rd.discAt >= 0
    /\ \E k \in Neurons : count[k] > 0
    /\ Ticked /\ ~pre.connected /\ pre.ticks > rd.discAt

\* C15: at every tick boundary every line of every window is at a position
\* of 0..W-1: none is left at a negative position.
C15_AllPositionsInWindow ==
    \A k \in Neurons : \A i \in 1..Len(lines[k]) :
        lines[k][i].x \in 0..(W - 1)

\* C16: in every window the order of insertion is the order of position:
\* the positions grow strictly along the list, the oldest line lowest and
\* the newest highest, and no two lines share a position.
C16_InsertionOrderIsPositionOrder ==
    \A k \in Neurons : \A i, j \in 1..Len(lines[k]) :
        i < j => lines[k][i].x < lines[k][j].x

\* a window of three lines or more plotted at changing rates: unevenly
\* spaced
C16_Witness ==
    \E k \in Neurons :
        /\ Len(lines[k]) >= 3
        /\ lines[k][2].x - lines[k][1].x # lines[k][3].x - lines[k][2].x
        /\ HasNew(k)

\* C17: a line plotted during a callback is not pruned by that callback:
\* when the callback returns it is the last line of its window, at W-1,
\* with the linewidth it was plotted with.
C17_NewLineSurvivesItsTick ==
    \A k \in Neurons :
        (Ticked /\ pre.plotted[k]) =>
            /\ Len(lines[k]) > 0
            /\ lines[k][Len(lines[k])] =
                  [x  |-> W - 1,
                   lw |-> IF pre.period[k] = 0 THEN ThickLw ELSE ThinLw]

\* a callback that plotted a line and pruned the one it found left of the
\* edge
C17_Witness ==
    \E k \in Neurons :
        /\ Ticked /\ pre.plotted[k]
        /\ Len(pre.lines[k]) > 0 /\ pre.lines[k][1].x < 0
        /\ HasNew(k) /\ lines[k][1].x >= 0

\* C18: src/spikeplot.py has one tick counter for all neurons; every
\* animation callback adds exactly 1 to it, whatever the neurons are doing
\* (idle, plotting, saturated, connected or not), and nothing else changes
\* it.
C18_OneTickPerCallback ==
    variant = "main" =>
        IF Ticked THEN ticks = pre.ticks + 1 ELSE ticks = 0

\* a callback, not the first, that found one neuron idle and another
\* saturated
C18_Witness ==
    /\ variant = "main" /\ pre.ticks >= 2 /\ ticks = pre.ticks + 1
    /\ \E j, k \in Neurons : pre.period[j] = -1 /\ pre.period[k] = 0

\* C19: no callback computes ticks modulo a period of 0: whatever the
\* counts, every callback runs to its end without a division by zero.
C19_NoDivisionByZero ==
    Ticked => \A k \in Neurons : pre.reached[k] /\ ticks = pre.ticks + 1

\* the lines of a window that are left of the edge
Stale(ln) == {i \in 1..Len(ln) : ln[i].x < 0}

\* C20: when a callback has returned, a window holds at most one line left
\* of 0 and its list at most W + 1 lines.
C20_AtMostOneStale ==
    \A k \in Neurons :
        /\ Cardinality(Stale(lines[k])) <= 1
        /\ Len(lines[k]) <= W + 1

\* a line left at -1 in the window of a neuron that has turned idle, kept
\* by the callbacks since
C20_Witness ==
    \E k \in Neurons :
        /\ Ticked /\ pre.period[k] = -1 /\ pre.reached[k]
        /\ Stale(pre.lines[k]) = {1} /\ Stale(lines[k]) = {1}
        /\ lines[k][1].x = -1

=============================================================================
